---------------------------- MODULE Spec2Model ----------------------------
(***************************************************************************)
(* Harbour Pools "passport" app (src/app.js, with data.js as               *)
(* src/unnamed/part_000): the in-memory session state, the persisted       *)
(* state behind storage.js, the rendered DOM fragments the handlers close  *)
(* over, and one action per event handler.                                 *)
(*                                                                         *)
(* JavaScript strings are sequences of one-character strings.  null is    *)
(* the distinguished value Null.  Array indices are 0-based as in the      *)
(* source; pools[i] of the source is pools[i + 1] here.                    *)
(*                                                                         *)
(* Not modelled: the pools' coordinates, the text of the toggle button,    *)
(* the 'pop' and 'full-map' classes, and the two handlers that touch none  *)
(* of the state below (mapToggle, openNativeMap).  storage.js is not among *)
(* the sources: a key holds what was last written to it, and a key never   *)
(* written reads as the default.  The page starts on the list view with    *)
(* both page buttons enabled; the chip is clicked on the list view, a      *)
(* card's date and the page buttons on the stamps view.                    *)
(***************************************************************************)
EXTENDS Integers, Sequences, FiniteSets, TLC

\* ------------------------------------------------------------------ bounds

\* Largest number of records pools.json holds.
MaxPools == 4

\* Largest integer an earlier session left in storage (smallest: -1).
MaxStored == 4

\* Largest |i| of a direct call selectIndex(i).
MaxArg == 9

\* ---------------------------------------------------------------- JS values

Null == <<"null">>

Digits == {"0", "1", "2", "3", "4", "5", "6", "7", "8", "9"}

IsWhite(c) == c = " "

\* !v for a string-or-null v: null and "" are falsy.
Falsy(v) == v = Null \/ v = <<>>

RECURSIVE TrimStart(_)
TrimStart(s) ==
  IF s # <<>> /\ IsWhite(Head(s)) THEN TrimStart(Tail(s)) ELSE s

RECURSIVE TrimEnd(_)
TrimEnd(s) ==
  IF s # <<>> /\ IsWhite(s[Len(s)]) THEN TrimEnd(SubSeq(s, 1, Len(s) - 1)) ELSE s

\* String.prototype.trim
Trim(s) == TrimEnd(TrimStart(s))

\* a % n of JavaScript for n > 0: the remainder takes the sign of a.
JsRem(a, n) == IF a >= 0 THEN a % n ELSE 0 - ((0 - a) % n)

\* Math.ceil(a / b) for a >= 0, b > 0.
Ceil(a, b) == (a + b - 1) \div b

Max(a, b) == IF a >= b THEN a ELSE b

\* ------------------------------------------------------------ the clock

\* An instant is a number of hours since 2025-01-01T00:00Z, within 2025.
HoursPerDay == 24

MonthDays == <<31, 28, 31, 30, 31, 30, 31, 31, 30, 31, 30, 31>>

RECURSIVE MonthOf(_, _)
MonthOf(dayOfYear, m) ==
  IF dayOfYear < MonthDays[m] THEN <<m, dayOfYear + 1>>
  ELSE MonthOf(dayOfYear - MonthDays[m], m + 1)

DigitChar(d) == <<"0", "1", "2", "3", "4", "5", "6", "7", "8", "9">>[d + 1]

Pad2(n) == <<DigitChar(n \div 10), DigitChar(n % 10)>>

\* Date.prototype.toISOString of the instant h: always in UTC.
toISOString(h) ==
  LET md == MonthOf(h \div HoursPerDay, 1)
  IN  <<"2", "0", "2", "5", "-">> \o Pad2(md[1]) \o <<"-">> \o Pad2(md[2])
        \o <<"T">> \o Pad2(h % HoursPerDay)
        \o <<":", "0", "0", ":", "0", "0", ".", "0", "0", "0", "Z">>

RECURSIVE UpTo(_, _)
UpTo(s, c) ==
  IF s = <<>> \/ Head(s) = c THEN <<>> ELSE <<Head(s)>> \o UpTo(Tail(s), c)

\* s.split(c)[0]
SplitFirst(s, c) == UpTo(s, c)

\* The instant toggleStamp reads from new Date(): 2025-05-31T22:00Z, which is
\* 08:00 of 2025-06-01 in Sydney.
ClockInstants == {150 * HoursPerDay + 22}

\* The device's offsets from UTC, in hours (UTC; Sydney, UTC+10).
TimeZones == {0, 10}

\* The calendar date the local clock shows at instant h in zone tz.
LocalDate(h, tz) == SplitFirst(toISOString(h + tz), "T")

\* ------------------------------------------------------------- the data

\* The names pools.json may list, in file order (unique, as the data file's are).
AllPools ==
  <<"Bronte Baths", "Clovelly Pool", "Dawn Fraser Baths", "Elkington Park",
    "Greenwich Baths", "Maccallum Pool", "Murray Rose Pool", "Redleaf Pool">>

PoolsOf(n) == SubSeq(AllPools, 1, n)

PoolNames == {AllPools[i] : i \in 1..Len(AllPools)}

\* loadPools: throws when the fetch fails or the status is not ok, and otherwise
\* maps the records of the body (their names; coordinates are not modelled).
loadPools(response) ==
  IF ~response.ok THEN [threw |-> TRUE, pools |-> <<>>]
  ELSE [threw |-> FALSE, pools |-> [i \in 1..Len(response.json) |-> response.json[i]]]

\* What fetch('pools.json') can answer: a failure, or a list of n records.
Responses ==
  {[ok |-> FALSE, json |-> <<>>]} \cup {[ok |-> TRUE, json |-> PoolsOf(n)] : n \in 0..MaxPools}

\* --------------------------------------------------------------- storage

\* A storage key holds nothing (<< >>) or one value (<<v>>).
EmptyMap == [k \in {} |-> Null]

readVisited(slot) == IF slot = <<>> THEN EmptyMap ELSE slot[1]

readSelection(slot) == IF slot = <<>> THEN 0 ELSE slot[1]

readStampsPage(slot) == IF slot = <<>> THEN 0 ELSE slot[1]

writeVisited(s) == [s EXCEPT !.stVisited = <<s.visited>>]

writeSelection(s, idx) == [s EXCEPT !.stSelection = <<idx>>]

writeStampsPage(s, idx) == [s EXCEPT !.stStampsPage = <<idx>>]

countVisited(v) == Cardinality({k \in DOMAIN v : v[k].done})

\* The integers an earlier session may have left under an index key.
StoredInts == (0 - 1)..MaxStored

\* The visited maps an earlier session may have left.
StoredVisited ==
  {EmptyMap,
   [k \in {AllPools[1], AllPools[2]} |->
      IF k = AllPools[1]
      THEN [done |-> TRUE, date |-> <<"2", "0", "2", "5", "-", "0", "1", "-", "1", "5">>]
      ELSE [done |-> FALSE, date |-> Null]]}

\* ----------------------------------------------------------------- state

VARIABLES
  phase,              \* init(): "loading" (awaiting loadPools), "error", "empty", "ready"
  pools,              \* app.js:22
  visited,            \* app.js:23
  selectedIndex,      \* app.js:24
  currentStampsPage,  \* app.js:25
  onStampsView,       \* app.js:26
  map,                \* app.js:29  (TRUE once setupMap has created it)
  marker,             \* app.js:30  (the pool the marker stands on, "" before)
  stVisited,          \* storage key of the visited map
  stSelection,        \* storage key of the selected index
  stStampsPage,       \* storage key of the stamps page
  poolList,           \* #poolList: its message or its one row
  countBadge,         \* #countBadge: << >> or <<done, total>>
  grid,               \* #passportGrid: the cards of the rendered page
  pageLabel,          \* #passportPageLabel: << >> or <<page, of>>
  prevDisabled,       \* #prevPassportPage.disabled
  nextDisabled,       \* #nextPassportPage.disabled
  lastOp              \* the handler that ran last

vars ==
  <<phase, pools, visited, selectedIndex, currentStampsPage, onStampsView, map,
    marker, stVisited, stSelection, stStampsPage, poolList, countBadge, grid,
    pageLabel, prevDisabled, nextDisabled, lastOp>>

\* The program's state as one record, which the functions below transform.
\* threw: an exception is propagating out of the handler; rendered: the handler
\* has run renderStamps.
Cur ==
  [pools |-> pools, visited |-> visited, selectedIndex |-> selectedIndex,
   currentStampsPage |-> currentStampsPage, onStampsView |-> onStampsView,
   map |-> map, marker |-> marker, stVisited |-> stVisited,
   stSelection |-> stSelection, stStampsPage |-> stStampsPage,
   poolList |-> poolList, countBadge |-> countBadge, grid |-> grid,
   pageLabel |-> pageLabel, prevDisabled |-> prevDisabled,
   nextDisabled |-> nextDisabled, threw |-> FALSE, rendered |-> FALSE]

Commit(s) ==
  /\ pools' = s.pools
  /\ visited' = s.visited
  /\ selectedIndex' = s.selectedIndex
  /\ currentStampsPage' = s.currentStampsPage
  /\ onStampsView' = s.onStampsView
  /\ map' = s.map
  /\ marker' = s.marker
  /\ stVisited' = s.stVisited
  /\ stSelection' = s.stSelection
  /\ stStampsPage' = s.stStampsPage
  /\ poolList' = s.poolList
  /\ countBadge' = s.countBadge
  /\ grid' = s.grid
  /\ pageLabel' = s.pageLabel
  /\ prevDisabled' = s.prevDisabled
  /\ nextDisabled' = s.nextDisabled

\* lastOp: the handler, its integer input, and whether it ran renderStamps.
Op(op, int, s) == [op |-> op, int |-> int, rendered |-> s.rendered]

Message(text) == [text |-> text, chip |-> "", stamped |-> FALSE, stampDate |-> Null]

\* v && v.done, for v = visited[name]
Stamped(v, name) == name \in DOMAIN v /\ v[name].done

\* stamped && v.date ? v.date : null
StampDate(v, name) ==
  IF Stamped(v, name) /\ ~Falsy(v[name].date) THEN v[name].date ELSE Null

\* visited[name] = rec
Put(v, name, rec) ==
  [k \in DOMAIN v \cup {name} |-> IF k = name THEN rec ELSE v[k]]

\* ------------------------------------------------------------ functions

\* updateCount, app.js:54
updateCount(s) ==
  [s EXCEPT !.countBadge = <<countVisited(s.visited), Len(s.pools)>>]

\* renderList, app.js:109.  With pools loaded and selectedIndex outside the
\* list, p is undefined and reading p.name throws after the list was cleared.
renderList(s) ==
  IF Len(s.pools) = 0 THEN [s EXCEPT !.poolList = Message("No pools loaded.")]
  ELSE IF s.selectedIndex \notin 0..(Len(s.pools) - 1)
  THEN [s EXCEPT !.poolList = Message(""), !.threw = TRUE]
  ELSE LET name == s.pools[s.selectedIndex + 1]
       IN  updateCount([s EXCEPT !.poolList =
             [text |-> name, chip |-> name,
              stamped |-> Stamped(s.visited, name),
              stampDate |-> StampDate(s.visited, name)]])

\* setupMap, app.js:210
setupMap(s) ==
  IF Len(s.pools) = 0 THEN s
  ELSE [s EXCEPT !.map = TRUE, !.marker = s.pools[1]]

\* panToSelected, app.js:224
panToSelected(s) ==
  IF ~s.map \/ Len(s.pools) = 0 THEN s
  ELSE IF s.selectedIndex \notin 0..(Len(s.pools) - 1) THEN [s EXCEPT !.threw = TRUE]
  ELSE [s EXCEPT !.marker = s.pools[s.selectedIndex + 1]]

\* WrapIndex without the "+ pools.length" of app.js:197.
WrapIndex_NoOffset(idx, n) == JsRem(idx, n)

\* (idx + pools.length) % pools.length, app.js:197
WrapIndex(idx, n) == JsRem(idx + n, n)

\* selectIndex, app.js:194
selectIndex(s, idx) ==
  IF Len(s.pools) = 0 THEN s
  ELSE LET i  == WrapIndex(idx, Len(s.pools))
           s1 == writeSelection([s EXCEPT !.selectedIndex = i], i)
           s2 == renderList(s1)
       IN  IF s2.threw THEN s2 ELSE panToSelected(s2)

\* moveSelection, app.js:205
moveSelection(s, step) == selectIndex(s, s.selectedIndex + step)

\* const stampsPerPage = 3, app.js:248
stampsPerPage == 3

\* TotalPages with Math.floor for Math.ceil.
TotalPages_Floor(n) == Max(1, n \div stampsPerPage)

\* Math.max(1, Math.ceil(pools.length / stampsPerPage)), app.js:249
TotalPages(n) == Max(1, Ceil(n, stampsPerPage))

\* ClampPage wrapping the page as selectIndex wraps the selection.
ClampPage_Wraps(page, totalPages) == page % totalPages

\* The two range checks of app.js:252-253
ClampPage(page, totalPages) ==
  LET p1 == IF page < 0 THEN 0 ELSE page
  IN  IF p1 > totalPages - 1 THEN totalPages - 1 ELSE p1

\* Array.prototype.slice(a, b) for 0 <= a <= b
Slice(seq, a, b) == SubSeq(seq, a + 1, IF b < Len(seq) THEN b ELSE Len(seq))

\* One card of the grid: what its date handler closes over.
Card(s, name) ==
  [name |-> name, stamped |-> Stamped(s.visited, name),
   stampDate |-> StampDate(s.visited, name)]

\* renderStamps, app.js:243 (the grid element exists; the 'pop' class is cosmetic)
renderStamps(s) ==
  LET totalPages == TotalPages(Len(s.pools))
      page       == ClampPage(s.currentStampsPage, totalPages)
      s1         == writeStampsPage([s EXCEPT !.currentStampsPage = page], page)
      start      == page * stampsPerPage
      pagePools  == Slice(s.pools, start, start + stampsPerPage)
  IN  [s1 EXCEPT !.grid = [i \in 1..Len(pagePools) |-> Card(s, pagePools[i])],
                 !.pageLabel = <<page + 1, totalPages>>,
                 !.prevDisabled = (page = 0),
                 !.nextDisabled = (page = totalPages - 1),
                 !.rendered = TRUE]

\* changeStampsPage, app.js:233
changeStampsPage(s, delta) ==
  renderStamps([s EXCEPT !.currentStampsPage = s.currentStampsPage + delta])

\* setView, app.js:64
setView(s, showStamps) ==
  LET s1 == [s EXCEPT !.onStampsView = showStamps]
  IN  IF showStamps THEN renderStamps(s1) ELSE s1

\* new Date().toISOString().split('T')[0], app.js:163
Today(now) == SplitFirst(toISOString(now), "T")

\* ToggledRecord clearing the done flag and keeping the date.
ToggledRecord_KeepsDate(v, name, now) ==
  IF Stamped(v, name) THEN [done |-> FALSE, date |-> v[name].date]
  ELSE [done |-> TRUE, date |-> Today(now)]

\* The record toggleStamp stores, app.js:165-169
ToggledRecord(v, name, now) ==
  IF Stamped(v, name) THEN [done |-> FALSE, date |-> Null]
  ELSE [done |-> TRUE, date |-> Today(now)]

\* toggleStamp, app.js:161
toggleStamp(s, name, now) ==
  LET rec == ToggledRecord(s.visited, name, now)
      s1  == writeVisited([s EXCEPT !.visited = Put(s.visited, name, rec)])
      s2  == renderList(s1)
  IN  IF s2.threw THEN s2 ELSE renderStamps(s2)

\* setStampDate, app.js:177
setStampDate(s, name, date) ==
  IF Falsy(date) THEN s
  ELSE LET trimmed == Trim(date)
       IN  IF Falsy(trimmed) THEN s
           ELSE LET rec == [done |-> TRUE, date |-> trimmed]
                    s1  == writeVisited([s EXCEPT !.visited = Put(s.visited, name, rec)])
                    s2  == renderList(s1)
                IN  IF s2.threw THEN s2 ELSE renderStamps(s2)

\* The regular expression literal of app.js:291, /^\\d{4}-\\d{2}-\\d{2}$/, as
\* <<character, repetitions>> atoms between its anchors.  In a regular
\* expression literal \\ is an escaped backslash, so each \\d{n} is a backslash
\* followed by n letters d.
DatePattern ==
  <<<<"\\", 1>>, <<"d", 4>>, <<"-", 1>>, <<"\\", 1>>, <<"d", 2>>, <<"-", 1>>,
    <<"\\", 1>>, <<"d", 2>>>>

RECURSIVE MatchAtoms(_, _)
\* Whether s is exactly the atoms, each character repeated as often as it says.
MatchAtoms(atoms, s) ==
  IF atoms = <<>> THEN s = <<>>
  ELSE LET c == Head(atoms)[1]
           n == Head(atoms)[2]
       IN  /\ Len(s) >= n
           /\ \A i \in 1..n : s[i] = c
           /\ MatchAtoms(Tail(atoms), SubSeq(s, n + 1, Len(s)))

\* /^\\d{4}-\\d{2}-\\d{2}$/.test(s)
DatePatternTest(s) == MatchAtoms(DatePattern, s)

\* The click handler of a card's date, app.js:282, answered `next` by prompt().
dateClick(s, card, next) ==
  IF ~card.stamped THEN s
  ELSE IF Falsy(next) THEN s
  ELSE LET trimmed == Trim(next)
       IN  IF ~DatePatternTest(trimmed) THEN s
           ELSE setStampDate(s, card.name, trimmed)

\* The reset button's handler, app.js:320
resetClick(s, confirmed) ==
  IF ~confirmed THEN s
  ELSE LET s1 == writeVisited([s EXCEPT !.visited = EmptyMap])
           s2 == renderList(s1)
       IN  IF s2.threw THEN s2 ELSE updateCount(renderStamps(s2))

\* init after loadPools has settled, app.js:359
init(s, loaded) ==
  IF loaded.threw THEN [s EXCEPT !.poolList = Message("Error loading pools list.")]
  ELSE LET s1 == [s EXCEPT !.pools = loaded.pools]
       IN  IF Len(s1.pools) = 0
           THEN [s1 EXCEPT !.poolList = Message("No pools configured.")]
           ELSE LET s2 == IF s1.selectedIndex < 0 \/ s1.selectedIndex >= Len(s1.pools)
                          THEN [s1 EXCEPT !.selectedIndex = 0] ELSE s1
                    s3 == selectIndex(setupMap(s2), s2.selectedIndex)
                IN  IF s3.threw THEN s3 ELSE updateCount(setView(s3, FALSE))

\* ------------------------------------------------------------- the inputs

BackslashDate ==
  <<"\\", "d", "d", "d", "d", "-", "\\", "d", "d", "-", "\\", "d", "d">>

\* What the user may answer to prompt(): Cancel, or a typed string.
PromptAnswers ==
  {Null,
   <<>>,
   <<" ", " ">>,
   <<" ", "2", "0", "2", "5", "-", "1", "2", "-", "0", "5", " ">>,
   BackslashDate}

\* ------------------------------------------------------------ the actions

Init ==
  /\ phase = "loading"
  /\ pools = <<>>
  /\ stVisited \in {<<>>} \cup {<<m>> : m \in StoredVisited \ {EmptyMap}}
  /\ stSelection \in {<<>>} \cup {<<i>> : i \in StoredInts}
  /\ stStampsPage \in {<<>>} \cup {<<i>> : i \in StoredInts}
  /\ visited = readVisited(stVisited)
  /\ selectedIndex = readSelection(stSelection)
  /\ currentStampsPage = readStampsPage(stStampsPage)
  /\ onStampsView = FALSE
  /\ map = FALSE
  /\ marker = ""
  /\ poolList = Message("")
  /\ countBadge = <<>>
  /\ grid = <<>>
  /\ pageLabel = <<>>
  /\ prevDisabled = FALSE
  /\ nextDisabled = FALSE
  /\ lastOp = Op("load", 0, Cur)

\* loadPools settles and init runs on: app.js:359-392.
InitSettles(response) ==
  /\ phase = "loading"
  /\ LET loaded == loadPools(response)
         s      == init(Cur, loaded)
     IN  /\ phase' = IF loaded.threw THEN "error"
                     ELSE IF Len(loaded.pools) = 0 THEN "empty" ELSE "ready"
         /\ Commit(s)
         /\ lastOp' = Op("init", selectedIndex, s)

\* toggleBtn click, app.js:317
ClickToggle ==
  LET s == setView(Cur, ~onStampsView)
  IN  /\ Commit(s)
      /\ lastOp' = Op("toggleView", currentStampsPage, s)
      /\ UNCHANGED phase

\* resetBtn click, app.js:320, confirm() answered `confirmed`
ClickReset(confirmed) ==
  LET s == resetClick(Cur, confirmed)
  IN  /\ Commit(s)
      /\ lastOp' = Op("reset", IF confirmed THEN 1 ELSE 0, s)
      /\ UNCHANGED phase

\* btnUp / btnNextPool (step 1), btnDown / btnPrevPool (step -1), app.js:346-351
ClickArrow(step) ==
  LET s == moveSelection(Cur, step)
  IN  /\ Commit(s)
      /\ lastOp' = Op("moveSelection", step, s)
      /\ UNCHANGED phase

\* prevStampsPageBtn / nextStampsPageBtn click, app.js:354-355: on the stamps
\* view, and a disabled button fires no click.
ClickStampsPage(delta) ==
  /\ onStampsView
  /\ delta = 0 - 1 => ~prevDisabled
  /\ delta = 1 => ~nextDisabled
  /\ LET s == changeStampsPage(Cur, delta)
     IN  /\ Commit(s)
         /\ lastOp' = Op("stampsPage", delta, s)
         /\ UNCHANGED phase

\* The chip of the rendered row is clicked (list view), app.js:146, when the
\* clock reads `now`.
ClickChip(now) ==
  /\ ~onStampsView
  /\ poolList.chip # ""
  /\ LET s == toggleStamp(Cur, poolList.chip, now)
     IN  /\ Commit(s)
         /\ lastOp' = Op("toggleStamp", 0, s)
         /\ UNCHANGED phase

\* The date of card i of the grid is clicked (stamps view), app.js:282, and the
\* prompt, if it opens, is answered `next`.
ClickDate(i, next) ==
  /\ onStampsView
  /\ i \in 1..Len(grid)
  /\ LET s == dateClick(Cur, grid[i], next)
     IN  /\ Commit(s)
         /\ lastOp' = Op("dateClick", 0, s)
         /\ UNCHANGED phase

Next ==
  \/ \E response \in Responses : InitSettles(response)
  \/ ClickToggle
  \/ \E confirmed \in BOOLEAN : ClickReset(confirmed)
  \/ \E step \in {1, 0 - 1} : ClickArrow(step)
  \/ \E delta \in {1, 0 - 1} : ClickStampsPage(delta)
  \/ \E now \in ClockInstants : ClickChip(now)
  \/ \E i \in 1..stampsPerPage, next \in PromptAnswers : ClickDate(i, next)

Spec == Init /\ [][Next]_vars

\* ------------------------------------------- direct calls of the functions

\* The names the functions are called with: two pools and a name no pool has.
CallNames == {AllPools[1], AllPools[2], "X"}

\* The date arguments setStampDate is called with.
DateArgs ==
  {Null,
   <<>>,
   <<" ", " ">>,
   <<" ", "2", "0", "2", "5", "-", "1", "2", "-", "0", "5", " ">>,
   <<"x">>}

\* selectIndex(i)
CallSelectIndex(i) ==
  LET s == selectIndex(Cur, i)
  IN  /\ Commit(s)
      /\ lastOp' = Op("selectIndex", 0, s)
      /\ UNCHANGED phase

\* toggleStamp(name)
CallToggleStamp(name, now) ==
  LET s == toggleStamp(Cur, name, now)
  IN  /\ Commit(s)
      /\ lastOp' = Op("toggleStamp", 0, s)
      /\ UNCHANGED phase

\* setStampDate(name, date)
CallSetStampDate(name, date) ==
  LET s == setStampDate(Cur, name, date)
  IN  /\ Commit(s)
      /\ lastOp' = Op("setStampDate", 0, s)
      /\ UNCHANGED phase

\* changeStampsPage(delta)
CallChangeStampsPage(delta) ==
  LET s == changeStampsPage(Cur, delta)
  IN  /\ Commit(s)
      /\ lastOp' = Op("stampsPage", delta, s)
      /\ UNCHANGED phase

NextPages ==
  \/ Next
  \/ \E delta \in {1, 0 - 1} : CallChangeStampsPage(delta)

\* The page's events, and changeStampsPage called whatever the view and the
\* buttons' state, as a unit test calls it.
SpecPages == Init /\ [][NextPages]_vars

NextSelect ==
  \/ \E response \in Responses : InitSettles(response)
  \/ \E i \in (0 - MaxArg)..MaxArg : CallSelectIndex(i)
  \/ \E step \in {1, 0 - 1} : ClickArrow(step)

\* selectIndex called directly, as a unit test calls it, besides the arrows.
SpecSelect == Init /\ [][NextSelect]_vars

\* Nothing under the two index keys of the storage.
InitStamps ==
  /\ Init
  /\ stSelection = <<>>
  /\ stStampsPage = <<>>

NextStamps ==
  \/ \E response \in Responses : InitSettles(response)
  \/ \E name \in CallNames, now \in ClockInstants : CallToggleStamp(name, now)
  \/ \E name \in CallNames, date \in DateArgs : CallSetStampDate(name, date)
  \/ \E confirmed \in BOOLEAN : ClickReset(confirmed)

\* toggleStamp and setStampDate called directly, as a unit test calls them,
\* besides the reset button.
SpecStamps == InitStamps /\ [][NextStamps]_vars

\* -------------------------------------------------------------- properties

\* Four digits, '-', two digits, '-', two digits.
IsISODateForm(s) ==
  /\ Len(s) = 10
  /\ \A i \in {1, 2, 3, 4, 6, 7, 9, 10} : s[i] \in Digits
  /\ s[5] = "-"
  /\ s[8] = "-"

\* page clamped into [0, ceil(n / 3) - 1]
ClampedInto(page, n) ==
  LET hi == Ceil(n, 3) - 1
  IN  IF page < 0 THEN 0 ELSE IF page > hi THEN hi ELSE page

\* C1: what every step is to satisfy.
C1_SelectionStaysInRange_Step ==
  /\ phase' = "ready" => selectedIndex' \in 0..(Len(pools') - 1)
  /\ \A response \in Responses :
       InitSettles(response) /\ phase' = "ready" =>
         selectedIndex' = IF selectedIndex \in 0..(Len(pools') - 1)
                          THEN selectedIndex ELSE 0
  /\ \A step \in {1, 0 - 1} :
       phase = "ready" /\ ClickArrow(step) =>
         selectedIndex' = (selectedIndex + step) % Len(pools)

\* C1: once init has completed with N > 0 pools, selectedIndex is in [0, N) in
\* every state; init keeps a persisted index that is in range and resets any
\* other to 0; and an arrow click with step +1 or -1 moves the index k to
\* (k + step) mod N.
C1_SelectionStaysInRange == [][C1_SelectionStaysInRange_Step]_vars

\* C1 witness: with at least three pools an arrow click with step +1 has
\* wrapped the selection from the last pool to the first.
C1_Witness ==
  /\ phase = "ready"
  /\ Len(pools) >= 3
  /\ lastOp.op = "moveSelection"
  /\ lastOp.int = 1
  /\ selectedIndex = 0
  /\ stSelection = <<0>>
  /\ marker = pools[1]

\* C2: what every step is to satisfy.
C2_SelectIndexWrapsEveryInteger_Step ==
  \A i \in (0 - MaxArg)..MaxArg :
    CallSelectIndex(i) /\ Len(pools) > 0 =>
      /\ selectedIndex' \in 0..(Len(pools) - 1)
      /\ selectedIndex' = selectIndex(Cur, i + Len(pools)).selectedIndex

\* C2: with N > 0 pools, selectIndex(i) for any integer i leaves selectedIndex
\* in [0, N), and selectIndex(i) and selectIndex(i + N) leave the same value.
C2_SelectIndexWrapsEveryInteger == [][C2_SelectIndexWrapsEveryInteger_Step]_vars

\* C3: what every step is to satisfy.
C3_ToggleStampsTheLocalDate_Step ==
  \A now \in ClockInstants, tz \in TimeZones :
    ClickChip(now) =>
      LET name == poolList.chip
      IN  /\ DOMAIN visited' = DOMAIN visited \cup {name}
          /\ ~Stamped(visited, name) =>
               visited'[name] = [done |-> TRUE, date |-> LocalDate(now, tz)]
          /\ Stamped(visited, name) =>
               visited'[name] = [done |-> FALSE, date |-> Null]
          /\ \A k \in DOMAIN visited \ {name} : visited'[k] = visited[k]

\* C3: a chip click on a pool that is not visited sets its record to
\* {done: true, date: D}, D the calendar date of the local clock, whatever the
\* device's time zone; on a visited pool it sets {done: false, date: null};
\* and no other pool's record changes.
C3_ToggleStampsTheLocalDate == [][C3_ToggleStampsTheLocalDate_Step]_vars

\* C4: every record of the visited map, in memory and in storage, is
\* {done: false, date: null} or {done: true, date: a non-empty string}.
WellFormed(v) ==
  \A k \in DOMAIN v :
    \/ v[k] = [done |-> FALSE, date |-> Null]
    \/ v[k].done /\ v[k].date # Null /\ v[k].date # <<>>

C4_DateOnlyIfDone ==
  /\ WellFormed(visited)
  /\ WellFormed(readVisited(stVisited))

\* C4 witness: a pool cleared by toggleStamp beside a name whose date was set
\* by setStampDate from a padded string.
C4_Witness ==
  /\ AllPools[1] \in DOMAIN visited
  /\ visited[AllPools[1]] = [done |-> FALSE, date |-> Null]
  /\ "X" \in DOMAIN visited
  /\ visited["X"] = [done |-> TRUE,
                     date |-> <<"2", "0", "2", "5", "-", "1", "2", "-", "0", "5">>]
  /\ lastOp.op = "toggleStamp"
  /\ stVisited = <<visited>>

\* C5: what every step is to satisfy.
C5_PageClampedAndPersisted_Step ==
  Len(pools') > 0 /\ lastOp'.rendered =>
    LET asked == IF lastOp'.op = "stampsPage"
                 THEN currentStampsPage + lastOp'.int ELSE currentStampsPage
    IN  /\ currentStampsPage' = ClampedInto(asked, Len(pools'))
        /\ stStampsPage' = <<currentStampsPage'>>

\* C5: with P > 0 pools, a handler that runs renderStamps leaves
\* currentStampsPage equal to the page it was asked for clamped into
\* [0, ceil(P / 3) - 1], and that value is the persisted one.
C5_PageClampedAndPersisted == [][C5_PageClampedAndPersisted_Step]_vars

\* C5 witness: four pools, page 4 read from storage, and the stamps view
\* opened: the page is 1, the last.
C5_Witness ==
  /\ Len(pools) = 4
  /\ lastOp = [op |-> "toggleView", int |-> 4, rendered |-> TRUE]
  /\ currentStampsPage = 1
  /\ stStampsPage = <<1>>
  /\ pageLabel = <<2, 2>>

\* What C6 says of a rendered stamps view.
PagesAsClaimed ==
  LET P     == Len(pools)
      total == pageLabel[2]
      last  == P - 3 * (total - 1)
  IN  /\ total = Ceil(P, 3)
      /\ last \in 1..3
      /\ currentStampsPage = total - 1 => Len(grid) = last
      /\ currentStampsPage < total - 1 => Len(grid) = 3

\* C6 as stated: for every pool count P at which renderStamps runs, its
\* totalPages is ceil(P / 3) and the last page holds P - 3 * (totalPages - 1)
\* pools, between 1 and 3.
C6_Original == lastOp.rendered => PagesAsClaimed

\* C6 amended: that holds when P > 0; with no pools renderStamps shows one
\* page, and it is empty.
C6_PagesForSomePools ==
  lastOp.rendered =>
    IF Len(pools) > 0 THEN PagesAsClaimed
    ELSE pageLabel = <<1, 1>> /\ grid = <<>>

\* C6 witness: four pools rendered on the second of two pages, which holds one.
C6_Witness ==
  /\ lastOp.rendered
  /\ Len(pools) = 4
  /\ pageLabel = <<2, 2>>
  /\ Len(grid) = 1

\* A prompt answer the date edit is to reject: cancelled, empty, or not of the
\* form YYYY-MM-DD once trimmed.
Rejected(next) == Falsy(next) \/ ~IsISODateForm(Trim(next))

\* C7: what every step is to satisfy.
C7_RejectedDateChangesNothing_Step ==
  \A i \in 1..stampsPerPage, next \in PromptAnswers :
    ClickDate(i, next) /\ Rejected(next) =>
      visited' = visited /\ stVisited' = stVisited

\* C7: a date edit answered with a rejected string leaves the visited map, in
\* memory and in storage, as it was.
C7_RejectedDateChangesNothing == [][C7_RejectedDateChangesNothing_Step]_vars

\* C8: what every step is to satisfy.
C8_NothingAfterFailedLoad_Step ==
  phase \in {"error", "empty"} /\ currentStampsPage >= 0 =>
    /\ phase' = phase
    /\ ~map'
    /\ visited' = visited
    /\ selectedIndex' = selectedIndex
    /\ currentStampsPage' = currentStampsPage
    /\ readVisited(stVisited') = readVisited(stVisited)
    /\ readSelection(stSelection') = readSelection(stSelection)
    /\ readStampsPage(stStampsPage') = readStampsPage(stStampsPage)

\* C8: after loadPools has failed or returned no records, init is over for
\* good, no map is set up, and no event changes the session state or what the
\* storage reads as (stated for a session whose stamps page is not negative).
C8_NothingAfterFailedLoad == [][C8_NothingAfterFailedLoad_Step]_vars

\* C9: what every step is to satisfy.
C9_ValidDateIsAccepted_Step ==
  \A i \in 1..stampsPerPage, next \in PromptAnswers \ {Null} :
    ClickDate(i, next) /\ grid[i].stamped =>
      IF IsISODateForm(Trim(next))
      THEN /\ grid[i].name \in DOMAIN visited'
           /\ visited'[grid[i].name] = [done |-> TRUE, date |-> Trim(next)]
           /\ stVisited' = <<visited'>>
      ELSE visited' = visited /\ stVisited' = stVisited

\* C9: a date edit of a stamped pool answered with a string of the form
\* YYYY-MM-DD once trimmed sets the record to {done: true, date: that string}
\* and persists it; an answer not of that form changes nothing.
C9_ValidDateIsAccepted == [][C9_ValidDateIsAccepted_Step]_vars

\* C10: what every step is to satisfy.
C10_PendingClickKeepsPersistedPage_Step ==
  /\ phase = "loading"
  /\ lastOp'.op \in {"toggleView", "stampsPage"}
  /\ readStampsPage(stStampsPage) \in 0..(Ceil(MaxPools, stampsPerPage) - 1)
  => /\ readSelection(stSelection') = readSelection(stSelection)
     /\ readStampsPage(stStampsPage') = readStampsPage(stStampsPage)

\* C10: a click on the view toggle or on a stamps page button handled while
\* loadPools is pending leaves what the storage reads as the selection and as
\* the stamps page unchanged, when the stored page is one the list about to
\* load may have.
C10_PendingClickKeepsPersistedPage == [][C10_PendingClickKeepsPersistedPage_Step]_vars

=============================================================================
